---- MODULE Spec2Model ----
(***************************************************************************)
(* Model of src/src/App.tsx: a ledger of parts kept in a useReducer store  *)
(* and a run() handler that pushes every part that has not succeeded       *)
(* through a PQueue with a concurrency limit.                              *)
(*                                                                         *)
(* JavaScript runs one macrotask at a time.  A click handler, and a timer  *)
(* callback together with the promise continuations (microtasks) it        *)
(* releases, are each one atomic step: no other timer or click can run     *)
(* between the dispatch of an outcome and PQueue's _next() that follows.   *)
(* The reducer is applied to the dispatched actions in dispatch order, and *)
(* the buttons read the state the reducer has produced.                    *)
(***************************************************************************)
EXTENDS Integers, Sequences, FiniteSets, TLC

\* Largest number of parts and largest concurrency limit explored.
MaxParts == 4
MaxPool == 3
\* Longest ledger and largest identifier the reducer is exercised on alone.
MaxLedger == 3
MaxId == 3

VARIABLES
  TOTAL_PARTS,   \* line 5, a build constant: any value in 0..MaxParts
  WORKER_POOL,   \* line 4, a build constant: any value in 1..MaxPool
  state,         \* the useReducer state {isUploading, items}
  lastAction,    \* the action the reducer logged last (line 34)
  queue,         \* the PQueue of the latest run()
  toProcess,     \* the identifiers the latest run() added to its queue
  finished,      \* "Finished part" log of the latest run (line 120)
  dispatched,    \* the outcome actions the tasks of the latest run dispatched
  runPromise     \* the promise the latest run() returned

vars == <<TOTAL_PARTS, WORKER_POOL, state, lastAction, queue, toProcess,
          finished, dispatched, runPromise>>

----------------------------------------------------------------------------
(* Part.success: null | true | false *)
Null == "null"
True == "true"
False == "false"

\* The value of reading a property an object does not have.
Undefined == -1

\* part.id; undefined for an object without that property.
IdOf(p) == IF "id" \in DOMAIN p THEN p.id ELSE Undefined

\* Array.prototype.slice(start, end) on a sequence, with JavaScript's
\* treatment of negative and out-of-range indices (indices are 0-based).
Clamp(k, len) == IF k < 0 THEN (IF len + k < 0 THEN 0 ELSE len + k)
                 ELSE IF k > len THEN len ELSE k
Slice(s, start, end) ==
  LET a == Clamp(start, Len(s))
      b == Clamp(end, Len(s))
  IN  IF a < b THEN SubSeq(s, a + 1, b) ELSE <<>>

\* Array.prototype.findIndex on the id: 0-based index of the first part with
\* that id, -1 when there is none.
FindIndex(items, id) ==
  IF \E i \in 1..Len(items) : IdOf(items[i]) = id
  THEN (CHOOSE i \in 1..Len(items) :
          /\ IdOf(items[i]) = id
          /\ \A j \in 1..(i - 1) : IdOf(items[j]) # id) - 1
  ELSE -1

\* Variant: the outcome is read from a property the action does not have.
WithSuccessUndefined(items, idx, value) ==
  IF idx >= 0 /\ idx < Len(items)
  THEN [items[idx + 1] EXCEPT !.success = "undefined"]
  ELSE [success |-> "undefined"]

\* { ...items[idx], success: value }: spreading undefined (idx out of range)
\* gives an object with the success property alone.
WithSuccess(items, idx, value) ==
  IF idx >= 0 /\ idx < Len(items)
  THEN [items[idx + 1] EXCEPT !.success = value]
  ELSE [success |-> value]

\* Variant: a failed part counts as pending (success !== true).
anyItemsNotSucceeded(items) ==
  Len(SelectSeq(items, LAMBDA p : p.success # True)) > 0

\* Variant: pending tested as `p.success === undefined`.
anyItemsUndefined(items) ==
  Len(SelectSeq(items, LAMBDA p : p.success = "undefined")) > 0

anyItemsPending(items) ==
  Len(SelectSeq(items, LAMBDA p : p.success = Null)) > 0

\* Variant: the map without its `if (p.success) return p`.
resetAllItems(items) ==
  [i \in 1..Len(items) |-> [items[i] EXCEPT !.success = Null]]

resetItems(items) ==
  [i \in 1..Len(items) |->
     IF items[i].success = True THEN items[i]
     ELSE [items[i] EXCEPT !.success = Null]]

\* Variant: the tail taken as slice(idx) instead of slice(idx + 1).
setOutcomeKeepOld(items, id, value) ==
  LET idx == FindIndex(items, id)
  IN  Slice(items, 0, idx) \o <<WithSuccess(items, idx, value)>>
        \o Slice(items, idx, Len(items))

\* The item list after an UPLOAD_SUCCESS / UPLOAD_FAILED for `id`.
setOutcome(items, id, value) ==
  LET idx == FindIndex(items, id)
  IN  Slice(items, 0, idx) \o <<WithSuccess(items, idx, value)>>
        \o Slice(items, idx + 1, Len(items))

\* case "ADD_ITEMS"
addItems(prevState, payload) == [prevState EXCEPT !.items = payload]

reducer(prevState, action) ==
  CASE action.type = "ADD_ITEMS" -> addItems(prevState, action.payload)
    [] action.type = "START_UPLOAD" ->
         [isUploading |-> TRUE, items |-> resetItems(prevState.items)]
    [] action.type = "UPLOAD_SUCCESS" ->
         LET items == setOutcome(prevState.items, action.payload, True)
         IN  [isUploading |-> anyItemsPending(items), items |-> items]
    [] action.type = "UPLOAD_FAILED" ->
         LET items1 == setOutcome(prevState.items, action.payload, False)
         IN  [isUploading |-> anyItemsPending(items1), items |-> items1]
    [] OTHER -> prevState

initialState == [isUploading |-> FALSE, items |-> <<>>]

\* Variant: identifiers counted from 1.
fakePartsFromOne(n) == [i \in 1..n |-> [id |-> i, success |-> Null]]

\* fakeParts.map((id) => ({ id, success: null })) for TOTAL_PARTS = n
fakeParts(n) == [i \in 1..n |-> [id |-> i - 1, success |-> Null]]

getSuccessParts(parts) == SelectSeq(parts, LAMBDA p : p.success = True)
getFailedParts(parts) == SelectSeq(parts, LAMBDA p : p.success = False)
numFailed == Len(getFailedParts(state.items))
numPending == Len(SelectSeq(state.items, LAMBDA p : p.success = Null))
numDone == Len(SelectSeq(state.items, LAMBDA p : p.success # Null))

\* disabled attribute of the Initialize button (line 178)
initializeDisabled == state.isUploading

\* Variant: the Run button without its state.isUploading test.
runDisabledWhenNothingLeft == numPending = 0 /\ numFailed = 0

\* disabled attribute of the Run button (line 194)
runDisabled == state.isUploading \/ (numPending = 0 /\ numFailed = 0)

----------------------------------------------------------------------------
(* PQueue({concurrency, autoStart: false}).  jobs: the queued tasks, each   *)
(* named by the part id its closure holds; pendingCount: tasks started and  *)
(* not yet followed by _next(); running: the ids of those tasks;            *)
(* emptyWaiter: an onEmpty() promise is waiting to be resolved.             *)

newQueue == [jobs |-> <<>>, pendingCount |-> 0, running |-> {},
             isPaused |-> TRUE, emptyWaiter |-> FALSE]

\* Variant: new PQueue() without a concurrency option (no limit).
concurrencyUnset == MaxParts + MaxPool

\* Variant: the limit passed one too low.
concurrencyOneLess == WORKER_POOL - 1

\* The concurrency option run() gives its queue (line 98).
concurrency == WORKER_POOL

add(q, id) == [q EXCEPT !.jobs = Append(@, id)]

doesConcurrentAllowAnother(q) == q.pendingCount < concurrency

\* _resolvePromises: resolves the onEmpty() waiter, if any.
resolvePromises(q) == [q EXCEPT !.emptyWaiter = FALSE]

\* _tryToStartAnother: the queue after the call, and the value returned.
tryToStartAnother(q) ==
  IF Len(q.jobs) = 0
  THEN [q |-> resolvePromises(q), ret |-> FALSE]
  ELSE IF ~q.isPaused /\ doesConcurrentAllowAnother(q)
  THEN [q |-> [q EXCEPT !.jobs = Tail(@),
                        !.pendingCount = @ + 1,
                        !.running = @ \cup {Head(q.jobs)}],
        ret |-> TRUE]
  ELSE [q |-> q, ret |-> FALSE]

\* _processQueue: while (this._tryToStartAnother()) {}
RECURSIVE processQueue(_)
processQueue(q) ==
  LET r == tryToStartAnother(q)
  IN  IF r.ret THEN processQueue(r.q) ELSE r.q

\* Variant: run() without its queue.start(): the queue stays paused.
startForgotten(q) == q

\* start()
start(q) ==
  IF ~q.isPaused THEN q
  ELSE processQueue([q EXCEPT !.isPaused = FALSE])

\* onEmpty(): resolved at once when nothing is queued, else a waiter.
onEmpty(q) == IF Len(q.jobs) = 0 THEN q ELSE [q EXCEPT !.emptyWaiter = TRUE]

\* Variant: a batched wave: the next jobs start only when every running
\* task has settled.
nextWave(q, id) ==
  LET d == [q EXCEPT !.pendingCount = @ - 1, !.running = @ \ {id}]
  IN  IF d.pendingCount = 0 THEN processQueue(d) ELSE d

\* _next(), run when the task of part `id` has settled.
next(q, id) ==
  tryToStartAnother([q EXCEPT !.pendingCount = @ - 1,
                              !.running = @ \ {id}]).q

RECURSIVE addAll(_, _)
addAll(q, ids) ==
  IF ids = <<>> THEN q ELSE addAll(add(q, Head(ids)), Tail(ids))

\* Variant: the filter keeps the parts that are pending (success === null).
partsPendingOnly(items) ==
  LET kept == SelectSeq(items, LAMBDA p : p.success = Null)
  IN  [i \in 1..Len(kept) |-> IdOf(kept[i])]

\* Variant: no filter: every part of the ledger is processed.
partsAll(items) == [i \in 1..Len(items) |-> IdOf(items[i])]

\* state.items.filter((part) => part.success !== true), as ids
partsToProcess(items) ==
  LET kept == SelectSeq(items, LAMBDA p : p.success # True)
  IN  [i \in 1..Len(kept) |-> IdOf(kept[i])]

\* Variant: `if (success) dispatch(UPLOAD_SUCCESS)` without the else.
taskOutcomeBoth(id, success) ==
  IF success
  THEN <<[type |-> "UPLOAD_SUCCESS", payload |-> id],
         [type |-> "UPLOAD_FAILED", payload |-> id]>>
  ELSE <<[type |-> "UPLOAD_FAILED", payload |-> id]>>

\* Variant: no try/catch around the request: a rejection ends the task
\* before it dispatches anything.
taskOutcomeNoCatch(id, success) ==
  IF success THEN <<[type |-> "UPLOAD_SUCCESS", payload |-> id]>> ELSE <<>>

\* The actions one task dispatches once its request has settled:
\* try { await fakeHttpRequest; success = true } catch { success = false },
\* then UPLOAD_SUCCESS or UPLOAD_FAILED for its own id.
taskOutcome(id, success) ==
  <<[type |-> IF success THEN "UPLOAD_SUCCESS" ELSE "UPLOAD_FAILED",
     payload |-> id]>>

\* The reducer applied to a list of dispatched actions, in order.
RECURSIVE reduceAll(_, _)
reduceAll(s, actions) ==
  IF actions = <<>> THEN s
  ELSE reduceAll(reducer(s, Head(actions)), Tail(actions))

----------------------------------------------------------------------------
Init ==
  /\ TOTAL_PARTS \in 0..MaxParts
  /\ WORKER_POOL \in 1..MaxPool
  /\ state = initialState
  /\ lastAction = [type |-> "none"]
  /\ queue = newQueue
  /\ toProcess = <<>>
  /\ finished = <<>>
  /\ dispatched = <<>>
  /\ runPromise = "none"

\* Click on Initialize (disabled while uploading).
handleInitialize ==
  /\ ~initializeDisabled
  /\ LET action == [type |-> "ADD_ITEMS", payload |-> fakeParts(TOTAL_PARTS)]
     IN  /\ state' = reducer(state, action)
         /\ lastAction' = action
  /\ UNCHANGED <<TOTAL_PARTS, WORKER_POOL, queue, toProcess, finished,
                 dispatched, runPromise>>

\* Click on Run (disabled while uploading or with nothing pending or
\* failed): run() up to its await.
run ==
  /\ ~runDisabled
  /\ LET action == [type |-> "START_UPLOAD"]
         ids == partsToProcess(state.items)
         started == start(addAll(newQueue, ids))
     IN  /\ state' = reducer(state, action)
         /\ lastAction' = action
         /\ toProcess' = ids
         /\ queue' = onEmpty(started)
         /\ runPromise' = IF onEmpty(started).emptyWaiter
                          THEN "pending" ELSE "fulfilled"
  /\ finished' = <<>>
  /\ dispatched' = <<>>
  /\ UNCHANGED <<TOTAL_PARTS, WORKER_POOL>>

\* The timer of the running task of part `id` fires: the fake request
\* resolves (success) or rejects, the task dispatches the outcome and
\* resolves, and PQueue's _next() follows.
settle(id, success) ==
  /\ id \in queue.running
  /\ LET actions == taskOutcome(id, success)
         q == next(queue, id)
     IN  /\ state' = reduceAll(state, actions)
         /\ lastAction' = IF actions = <<>> THEN lastAction
                          ELSE actions[Len(actions)]
         /\ dispatched' = dispatched \o actions
         /\ queue' = q
         /\ runPromise' = IF queue.emptyWaiter /\ ~q.emptyWaiter
                          THEN "fulfilled" ELSE runPromise
  /\ finished' = Append(finished, [id |-> id, success |-> success])
  /\ UNCHANGED <<TOTAL_PARTS, WORKER_POOL, toProcess>>

taskResolves == \E id \in 0..(MaxParts - 1) : settle(id, TRUE)
taskRejects == \E id \in 0..(MaxParts - 1) : settle(id, FALSE)

Next == handleInitialize \/ run \/ taskResolves \/ taskRejects

Spec == Init /\ [][Next]_vars

\* Every fake request settles: its timer always fires (lines 14-20).
FairSpec == Spec /\ WF_vars(taskResolves \/ taskRejects)

----------------------------------------------------------------------------
(* The reducer on its own: any ledger the program can hold, any action.    *)

Outcomes == {Null, True, False}

Ledgers ==
  UNION {{[i \in 1..n |-> [id |-> i - 1, success |-> f[i]]] :
            f \in [1..n -> Outcomes]} : n \in 0..MaxLedger}

\* isUploading is false on a ledger with nothing recorded or nothing
\* pending, and true on one with a part pending during a run.
ReducerStates ==
  {[isUploading |-> FALSE, items |-> l] :
     l \in {m \in Ledgers : \/ (\A i \in 1..Len(m) : m[i].success = Null)
                              \/ (\A j \in 1..Len(m) : m[j].success # Null)}}
  \cup {[isUploading |-> TRUE, items |-> l] :
          l \in {m \in Ledgers : \E i \in 1..Len(m) : m[i].success = Null}}

ReducerInit ==
  /\ TOTAL_PARTS = MaxLedger
  /\ WORKER_POOL = 1
  /\ state \in ReducerStates
  /\ lastAction = [type |-> "none"]
  /\ queue = newQueue
  /\ toProcess = <<>>
  /\ finished = <<>>
  /\ dispatched = <<>>
  /\ runPromise = "none"

\* dispatch(action): the store takes the reducer's result.
dispatch(action) ==
  /\ Len(state.items) <= MaxLedger
  /\ state' = reducer(state, action)
  /\ lastAction' = action
  /\ UNCHANGED <<TOTAL_PARTS, WORKER_POOL, queue, toProcess, finished,
                 dispatched, runPromise>>

dispatchAddItems ==
  \E n \in 0..MaxLedger :
    dispatch([type |-> "ADD_ITEMS", payload |-> fakeParts(n)])

dispatchStartUpload == dispatch([type |-> "START_UPLOAD"])

dispatchOutcome ==
  \E t \in {"UPLOAD_SUCCESS", "UPLOAD_FAILED"}, id \in 0..MaxId :
    dispatch([type |-> t, payload |-> id])

ReducerNext == dispatchAddItems \/ dispatchStartUpload \/ dispatchOutcome

ReducerSpec == ReducerInit /\ [][ReducerNext]_vars

----------------------------------------------------------------------------
(* Properties.                                                             *)

\* The parts whose work has started and whose outcome is not yet reported.
InFlight == queue.running
\* The identifiers still queued, as a set.
Queued == {queue.jobs[k] : k \in 1..Len(queue.jobs)}
\* The pool of the latest run still has an item queued or in flight.
RunActive == queue.jobs # <<>> \/ queue.running # {}
\* A run has been made and its pool holds nothing any more.
Drained == runPromise # "none" /\ ~RunActive
Submitted == {toProcess[i] : i \in 1..Len(toProcess)}
Reported == {dispatched[k].payload : k \in 1..Len(dispatched)}
PendingIds(items) ==
  LET kept == SelectSeq(items, LAMBDA p : p.success = Null)
  IN  [i \in 1..Len(kept) |-> kept[i].id]
IsOutcome(a) == a.type \in {"UPLOAD_SUCCESS", "UPLOAD_FAILED"}

\* C1: at every instant the number of parts whose work has started and whose
\* outcome has not been reported is at most the concurrency limit.
C1_InFlightBounded == Cardinality(InFlight) <= WORKER_POOL

\* C1 witness: the limit is reached while more parts wait in the queue.
C1_Witness ==
  /\ Cardinality(InFlight) = WORKER_POOL
  /\ WORKER_POOL >= 2
  /\ Len(queue.jobs) > 0

\* C2: when the promise run() returned has resolved, every submitted part
\* has had its outcome dispatched: none is still queued or in flight.
C2_ResolvedAfterAllOutcomes ==
  runPromise = "fulfilled" =>
    /\ queue.jobs = <<>>
    /\ InFlight = {}
    /\ Submitted \subseteq Reported

\* C3: within a run every outcome event is for a submitted identifier, no
\* identifier gets two events, and once the pool has drained every submitted
\* identifier has had its event.
C3_ExactlyOneOutcome ==
  /\ \A k \in 1..Len(dispatched) :
       IsOutcome(dispatched[k]) /\ dispatched[k].payload \in Submitted
  /\ \A k, l \in 1..Len(dispatched) :
       dispatched[k].payload = dispatched[l].payload => k = l
  /\ Drained => Submitted \subseteq Reported

\* C3 witness: a drained run of several parts, with both kinds of outcome.
C3_Witness ==
  /\ Drained
  /\ Len(toProcess) >= 2
  /\ \E k, l \in 1..Len(dispatched) :
       dispatched[k].type = "UPLOAD_SUCCESS"
         /\ dispatched[l].type = "UPLOAD_FAILED"

\* C4: in every step other than an initialize, a part that is Succeeded keeps
\* its outcome and its place, and is neither queued nor started.
C4_SucceededStays ==
  [][lastAction'.type # "ADD_ITEMS" =>
       \A i \in 1..Len(state.items) :
         state.items[i].success = True =>
           /\ i <= Len(state'.items)
           /\ state'.items[i] = state.items[i]
           /\ state.items[i].id \notin queue'.running
           /\ \A k \in 1..Len(queue'.jobs) :
                queue'.jobs[k] # state.items[i].id]_vars

\* C4 witness: a retry pass has reported outcomes while a part that
\* succeeded in an earlier pass is still Succeeded.
C4_Witness ==
  /\ dispatched # <<>>
  /\ \E i \in 1..Len(state.items) :
       /\ state.items[i].success = True
       /\ state.items[i].id \notin Submitted

\* C5: a run's START_UPLOAD sets uploading, turns every Failed part into
\* Unresolved and leaves every other part as it was, and the identifiers the
\* run gives its queue are exactly the pending parts of the ledger after
\* that reset, in ledger order.
C5_BeginRunWorkList ==
  [][lastAction'.type = "START_UPLOAD" =>
       /\ state'.isUploading
       /\ Len(state'.items) = Len(state.items)
       /\ \A i \in 1..Len(state.items) :
            /\ state'.items[i].id = state.items[i].id
            /\ state'.items[i].success =
                 IF state.items[i].success = True THEN True ELSE Null
       /\ toProcess' = PendingIds(state'.items)
       /\ queue'.running \cup {queue'.jobs[k] : k \in 1..Len(queue'.jobs)}
            = {toProcess'[i] : i \in 1..Len(toProcess')}]_vars

\* C5 witness: a retry run has just begun over a ledger that held a
\* Succeeded part and two Failed ones.
C5_Witness ==
  /\ lastAction.type = "START_UPLOAD"
  /\ Len(toProcess) = 2
  /\ \E i \in 1..Len(state.items) : state.items[i].success = True

\* C6: the step in which a part's request is rejected records Failed for
\* that part and changes no other part, leaves the run's promise unrejected,
\* keeps every other running part running and starts the next queued part.
C6_RejectionIsLocal ==
  [][(/\ Len(finished') = Len(finished) + 1
      /\ ~finished'[Len(finished')].success) =>
       LET id == finished'[Len(finished')].id
       IN  /\ Len(state'.items) = Len(state.items)
           /\ \A i \in 1..Len(state.items) :
                state'.items[i] =
                  IF state.items[i].id = id
                  THEN [id |-> id, success |-> False]
                  ELSE state.items[i]
           /\ runPromise' # "rejected"
           /\ (queue.running \ {id}) \subseteq queue'.running
           /\ IF queue.jobs = <<>> THEN queue'.jobs = <<>>
              ELSE /\ Head(queue.jobs) \in queue'.running
                   /\ queue'.jobs = Tail(queue.jobs)]_vars

\* C6 witness: a request was rejected and a part that was still queued then
\* has since reported its own outcome.
C6_Witness ==
  /\ Len(toProcess) > WORKER_POOL
  /\ Len(finished) = Len(toProcess)
  /\ ~finished[1].success

\* C7: with every request settling, a run that is uploading leads to a
\* state where every submitted part has an outcome recorded, nothing is
\* pending or in the pool, and uploading is false.
C7_RunDrains ==
  state.isUploading ~>
    (/\ ~state.isUploading
     /\ numPending = 0
     /\ ~RunActive
     /\ Submitted \subseteq Reported)

\* C7 witness: a run of more parts than the limit has drained.
C7_Witness ==
  /\ ~state.isUploading
  /\ Len(toProcess) > WORKER_POOL
  /\ Submitted \subseteq Reported
  /\ numPending = 0

\* C8: uploading is true exactly when the pool of a run still holds an item
\* and a part is Unresolved; it is false before the first run and true
\* whenever the run has outstanding items.
C8_UploadingIffActive ==
  /\ state.isUploading <=> (RunActive /\ numPending > 0)
  /\ RunActive => state.isUploading
  /\ runPromise = "none" => ~state.isUploading

\* C8 witness: mid-run, one outcome recorded and others outstanding.
C8_Witness ==
  /\ state.isUploading
  /\ finished # <<>>
  /\ Len(queue.jobs) > 0

\* C9: after an initialize the ledger is exactly TOTAL_PARTS parts, all
\* Unresolved, with identifiers 0..TOTAL_PARTS-1 in that order.
C9_InitializeFresh ==
  lastAction.type = "ADD_ITEMS" =>
    /\ Len(state.items) = TOTAL_PARTS
    /\ \A i \in 1..Len(state.items) :
         state.items[i] = [id |-> i - 1, success |-> Null]

\* C9 witness: an initialize that followed a run which had recorded
\* outcomes.
C9_Witness ==
  /\ lastAction.type = "ADD_ITEMS"
  /\ TOTAL_PARTS >= 2
  /\ \E k \in 1..Len(dispatched) : dispatched[k].type = "UPLOAD_FAILED"

\* C10: an UPLOAD_SUCCESS / UPLOAD_FAILED for an identifier that is not in
\* the ledger leaves the ledger as it was (items, order, outcomes and the
\* uploading flag).
C10_UnknownIdLeavesLedger ==
  [][(/\ IsOutcome(lastAction')
      /\ \A i \in 1..Len(state.items) :
           IdOf(state.items[i]) # lastAction'.payload) =>
       state' = state]_vars

\* C11: a START_UPLOAD dispatched while uploading is already true leaves
\* the ledger as it was: no part is reset.
C11_BeginRunWhileUploadingRefused ==
  [][(lastAction'.type = "START_UPLOAD" /\ state.isUploading) =>
       state' = state]_vars

\* What the work function yielded for the parts of the latest run.
Resolved == {finished[k].id : k \in {j \in 1..Len(finished) : finished[j].success}}
Rejected == {finished[k].id : k \in {j \in 1..Len(finished) : ~finished[j].success}}
\* The ledger holds, for every submitted part, the outcome its work yielded,
\* and Succeeded for every part that was not submitted.
LedgerMatchesWork ==
  \A i \in 1..Len(state.items) :
    LET id == state.items[i].id
    IN  /\ id \in Resolved \cup (Rejected \cup {x \in 0..MaxParts : x \notin Submitted})
        /\ state.items[i].success =
             IF id \notin Submitted \/ id \in Resolved THEN True ELSE False
\* failed() lists exactly the rejected identifiers, in identifier order.
FailedIsRejectedInOrder ==
  LET f == getFailedParts(state.items)
  IN  /\ {f[j].id : j \in 1..Len(f)} = Rejected
      /\ \A j \in 1..(Len(f) - 1) : f[j].id < f[j + 1].id

\* C12: once the promise of a run over a freshly initialized ledger has
\* resolved, every part's outcome is what its work yielded (Succeeded if it
\* resolved, Failed if it rejected), nothing is pending, failed() is the
\* rejected identifiers in order and uploading is false.
C12_CompletedRunMatchesWork ==
  (/\ runPromise = "fulfilled"
   /\ lastAction.type # "ADD_ITEMS"
   /\ Len(toProcess) = Len(state.items)) =>
    /\ LedgerMatchesWork
    /\ numPending = 0
    /\ FailedIsRejectedInOrder
    /\ ~state.isUploading

\* C13: with a limit of at least the length of the work list, whatever the
\* limit is, every submitted part is started at once, and the ledger the
\* run ends in is the one the work results alone determine.
C13_LimitAboveLengthSameLedger ==
  WORKER_POOL >= Len(toProcess) =>
    /\ lastAction.type = "START_UPLOAD" =>
         (queue.jobs = <<>> /\ InFlight = Submitted)
    /\ (Drained /\ IsOutcome(lastAction)) =>
         (LedgerMatchesWork /\ numPending = 0 /\ FailedIsRejectedInOrder)

\* C13 witness: a run of several parts under a limit above their number
\* has ended, with a rejected part among them.
C13_Witness ==
  /\ Drained
  /\ IsOutcome(lastAction)
  /\ Len(toProcess) >= 2
  /\ WORKER_POOL > Len(toProcess)
  /\ Rejected # {}
  /\ Resolved # {}

\* C14: after every step, while a submitted part is still queued exactly
\* WORKER_POOL parts are in flight; and the step in which a part reports its
\* outcome starts the first queued part, the other parts in flight staying
\* in flight.
C14_SlidingWindow ==
  [][/\ queue'.jobs # <<>> => Cardinality(queue'.running) = WORKER_POOL
     /\ (Len(finished') = Len(finished) + 1 /\ queue.jobs # <<>>) =>
          /\ queue'.jobs = Tail(queue.jobs)
          /\ queue'.running =
               (queue.running \ {finished'[Len(finished')].id})
                 \cup {Head(queue.jobs)}]_vars

\* C14 witness: one part has reported, its slot has been refilled and
\* another part of the first wave is still in flight, with parts queued.
C14_Witness ==
  /\ Len(finished) = 1
  /\ WORKER_POOL >= 2
  /\ Cardinality(InFlight) = WORKER_POOL
  /\ \E id \in InFlight : id < WORKER_POOL
  /\ \E id \in InFlight : id >= WORKER_POOL
  /\ queue.jobs # <<>>

\* C15: every part's outcome is one of Unresolved, Succeeded, Failed, and
\* the pending, failed and succeeded counts add up to the number of parts.
C15_OutcomesPartition ==
  /\ \A i \in 1..Len(state.items) : state.items[i].success \in Outcomes
  /\ numPending + numFailed + Len(getSuccessParts(state.items))
       = Len(state.items)

\* C15 witness: a ledger holding parts of all three outcomes.
C15_Witness ==
  /\ numPending > 0
  /\ numFailed > 0
  /\ Len(getSuccessParts(state.items)) > 0

\* C16: in every step other than an initialize the parts keep their number
\* and identifiers, and a part whose outcome changes goes from Unresolved
\* to Succeeded or Failed, being a submitted part in flight whose outcome
\* the step dispatches, or from Failed to Unresolved in a START_UPLOAD.
C16_OnlyAllowedTransitions ==
  [][lastAction'.type # "ADD_ITEMS" =>
       /\ Len(state'.items) = Len(state.items)
       /\ \A i \in 1..Len(state.items) :
            LET a == state.items[i].success
                b == state'.items[i].success
                id == state.items[i].id
            IN  /\ state'.items[i].id = id
                /\ a # b =>
                     \/ /\ a = Null
                        /\ b \in {True, False}
                        /\ id \in queue.running
                        /\ id \in Submitted
                        /\ IsOutcome(lastAction')
                        /\ lastAction'.payload = id
                     \/ /\ a = False
                        /\ b = Null
                        /\ lastAction'.type = "START_UPLOAD"]_vars

\* C16 witness: in a retry pass a part that had failed has been reset and
\* has now succeeded, beside a part that succeeded in an earlier pass.
C16_Witness ==
  /\ IsOutcome(lastAction)
  /\ \E i, j \in 1..Len(state.items) :
       /\ state.items[i].success = True
       /\ state.items[i].id \in Submitted
       /\ state.items[j].success = True
       /\ state.items[j].id \notin Submitted

\* C17: two outcome events on distinct identifiers give the same state in
\* either order of arrival.
C17_OutcomeOrderIrrelevant ==
  \A a, b \in 0..MaxId :
    \A ta, tb \in {"UPLOAD_SUCCESS", "UPLOAD_FAILED"} :
      a # b =>
        reducer(reducer(state, [type |-> ta, payload |-> a]),
                [type |-> tb, payload |-> b])
          = reducer(reducer(state, [type |-> tb, payload |-> b]),
                    [type |-> ta, payload |-> a])

\* C18: a START_UPLOAD happens only when uploading is false, a part is
\* Unresolved or Failed and the pool of the run before holds nothing; an
\* initialize only when uploading is false and the pool holds nothing; and
\* the invocations in flight are as many as the parts in flight (no part
\* has two).
C18_OneRunAtATime ==
  [][/\ lastAction'.type = "START_UPLOAD" =>
          /\ ~state.isUploading
          /\ numPending > 0 \/ numFailed > 0
          /\ ~RunActive
     /\ lastAction'.type = "ADD_ITEMS" =>
          /\ ~state.isUploading
          /\ ~RunActive
     /\ queue'.pendingCount = Cardinality(queue'.running)]_vars

\* C18 witness: a second run is under way, after the first one ended with
\* a part succeeded and a part failed.
C18_Witness ==
  /\ state.isUploading
  /\ RunActive
  /\ finished # <<>>
  /\ \E i \in 1..Len(state.items) :
       state.items[i].success = True /\ state.items[i].id \notin Submitted

\* C19: an UPLOAD_SUCCESS / UPLOAD_FAILED for an identifier the ledger holds
\* keeps the number of parts and changes nothing but the outcome of the
\* (first) part with that identifier.
C19_OutcomeFrame ==
  [][(/\ IsOutcome(lastAction')
      /\ \E i \in 1..Len(state.items) :
           IdOf(state.items[i]) = lastAction'.payload) =>
       LET id == lastAction'.payload
           idx == CHOOSE i \in 1..Len(state.items) :
                    /\ IdOf(state.items[i]) = id
                    /\ \A j \in 1..(i - 1) : IdOf(state.items[j]) # id
           value == IF lastAction'.type = "UPLOAD_SUCCESS"
                    THEN True ELSE False
       IN  /\ Len(state'.items) = Len(state.items)
           /\ \A i \in 1..Len(state.items) :
                IF i = idx
                THEN state'.items[i] = [id |-> id, success |-> value]
                ELSE state'.items[i] = state.items[i]]_vars

\* C19 witness: a ledger of several parts after a failure was recorded for
\* one of them.
C19_Witness ==
  /\ lastAction.type = "UPLOAD_FAILED"
  /\ Len(state.items) >= 2
  /\ \E i \in 1..Len(state.items) :
       /\ IdOf(state.items[i]) = lastAction.payload
       /\ state.items[i].success = False

\* C20: when uploading is false the pool holds nothing; and while the pool
\* holds something a part is Unresolved exactly when it is queued or in
\* flight, which is when it was submitted and has not reported.
C20_NotUploadingMeansPoolEmpty ==
  /\ ~state.isUploading => ~RunActive
  /\ RunActive =>
       \A i \in 1..Len(state.items) :
         LET id == state.items[i].id
         IN  /\ state.items[i].success = Null <=> id \in InFlight \cup Queued
             /\ state.items[i].success = Null <=>
                  (id \in Submitted /\ id \notin Reported)

\* C20 witness: the last parts of a run are in flight, nothing is queued,
\* and uploading is still true.
C20_Witness ==
  /\ state.isUploading
  /\ finished # <<>>
  /\ queue.jobs = <<>>
  /\ Cardinality(InFlight) = 1

====
